---- MODULE Spec2Model ----
(***************************************************************************)
(* Model of misfit/cli.py (python-misfit): the MisfitCli command-line      *)
(* controller, its config-file handling through configparser.ConfigParser  *)
(* (Python 3 semantics, the first import the module tries, line 37; the    *)
(* parser still offers readfp), and the authorization flow of MisfitAuth,  *)
(* whose code (misfit/auth.py) is not part of the sources and is modelled  *)
(* from the specification, sections 4.2 and 4.3.                           *)
(*                                                                         *)
(* One CLI invocation is one process: it starts from pc = "idle", runs the *)
(* command to pc = "done", and Exit returns to "idle" for the next, fresh  *)
(* process.  Only the config file survives between invocations.           *)
(***************************************************************************)
EXTENDS Naturals, Sequences, FiniteSets

VARIABLES
  file,            \* the config file on disk: [exists, lines]
  file0,           \* the config file as it was when the invocation started
  pc,              \* position of the current invocation
  cmd,             \* the command of the invocation (arguments[...])
  client_id,       \* self.client_id    (None or Some(string))
  client_secret,   \* self.client_secret
  access_token,    \* self.access_token
  config,          \* self.config, the in-memory ConfigParser
  listener,        \* CallbackListener state
  timer,           \* time the listener has waited
  captured,        \* what the callback request carried: "none", "code", "error"
  result,          \* AuthorizationResult kind returned by the flow
  token,           \* auth.token: None or Some(access token string)
  out,             \* messages printed by cli.py, in order
  fault,           \* exception that escaped MisfitCli(arguments), or "none"
  exit,            \* exit status of the process: "running", "zero", "nonzero"
  writeCalls,      \* number of write_config calls in this invocation
  io,              \* outcome of the invocation's config-file I/O
  resourceCalled   \* get_resource was called

vars == <<file, file0, pc, cmd, client_id, client_secret, access_token, config,
          listener, timer, captured, result, token, out, fault, exit,
          writeCalls, io, resourceCalled>>

----------------------------------------------------------------------------
(* Bounds of the model *)

\* longest client_id drawn for --client_id
MaxLen == 1
\* longest config file (in lines) that exists before the first invocation
MaxLines == 2
\* the listener's timeout, in timer ticks
Timeout == 2

----------------------------------------------------------------------------
(* Strings are sequences of characters over a small alphabet: an ordinary  *)
(* character, a blank, and the interpolation character of ConfigParser.    *)

Chars == {"a", " ", "%"}

Strs(n) == UNION {[1..k -> Chars] : k \in 0..n}

None == <<>>
Some(v) == <<v>>

\* --client_id=<client_id>
ClientIds == Strs(MaxLen)
\* --client_secret=<client_secret>
ClientSecrets == {<<"a">>, <<"%", "%">>}
\* the access_token field of the token the provider returns
AccessTokens == {<<"a">>, <<"a", " ">>}

Section == "misfit"
DefaultSection == "DEFAULT"
Keys == <<"client_id", "client_secret", "access_token">>

ResourceCmds == {"profile", "device", "goal", "summary", "session", "sleep"}

----------------------------------------------------------------------------
(* The config file: a sequence of lines.  A line is a section header       *)
(* "[k]", an option line "k = v" (v is the raw text after the delimiter),  *)
(* a line that is neither ("junk"), or a blank line.                       *)

Hdr(n) == [t |-> "hdr", k |-> n, v |-> <<>>]
Opt(k, v) == [t |-> "opt", k |-> k, v |-> v]
Junk == [t |-> "junk", k |-> "", v |-> <<>>]
Blank == [t |-> "blank", k |-> "", v |-> <<>>]

Absent == [exists |-> FALSE, lines |-> <<>>]
FileOf(ls) == [exists |-> TRUE, lines |-> ls]

\* lines a config file may hold before the first invocation
InitLines ==
  {Hdr(Section), Hdr(DefaultSection), Junk,
   Opt("client_id", <<"a">>), Opt("client_id", <<"%">>),
   Opt("client_secret", <<"a">>), Opt("access_token", <<"a">>)}

InitFiles ==
  {Absent} \cup {FileOf(ls) : ls \in UNION {[1..n -> InitLines] : n \in 0..MaxLines}}

----------------------------------------------------------------------------
(* configparser.ConfigParser, as cli.py uses it.  A parser holds the       *)
(* defaults (the DEFAULT section) and the sections in insertion order;     *)
(* options are [k, v] pairs in insertion order.                            *)

EmptyConfig == [defaults |-> <<>>, sects |-> <<>>]

RECURSIVE LStrip(_)
LStrip(s) == IF s # <<>> /\ Head(s) = " " THEN LStrip(Tail(s)) ELSE s

RECURSIVE RStrip(_)
RStrip(s) ==
  IF s # <<>> /\ s[Len(s)] = " " THEN RStrip(SubSeq(s, 1, Len(s) - 1)) ELSE s

\* str.strip() of an option value read from a file
Strip(s) == RStrip(LStrip(s))

\* BasicInterpolation.before_get: "%%" yields "%"; a "%" followed by anything
\* else but "(" is an InterpolationSyntaxError ("(" is not in Chars)
RECURSIVE Interpolate(_)
Interpolate(s) ==
  IF s = <<>> THEN [ok |-> TRUE, v |-> <<>>]
  ELSE IF Head(s) # "%"
    THEN LET r == Interpolate(Tail(s))
         IN  [ok |-> r.ok, v |-> <<Head(s)>> \o r.v]
  ELSE IF Len(s) >= 2 /\ s[2] = "%"
    THEN LET r == Interpolate(SubSeq(s, 3, Len(s)))
         IN  [ok |-> r.ok, v |-> <<"%">> \o r.v]
  ELSE [ok |-> FALSE, v |-> <<>>]

\* value.replace('%%', '') of BasicInterpolation.before_set
RECURSIVE DropPercentPairs(_)
DropPercentPairs(s) ==
  IF s = <<>> THEN <<>>
  ELSE IF Len(s) >= 2 /\ s[1] = "%" /\ s[2] = "%"
    THEN DropPercentPairs(SubSeq(s, 3, Len(s)))
  ELSE <<Head(s)>> \o DropPercentPairs(Tail(s))

\* BasicInterpolation.before_set accepts the value (no ValueError)
ValidValue(s) == \A i \in 1..Len(DropPercentPairs(s)) : DropPercentPairs(s)[i] # "%"

HasOpt(opts, k) == \E i \in 1..Len(opts) : opts[i].k = k

OptVal(opts, k) == opts[CHOOSE i \in 1..Len(opts) : opts[i].k = k].v

\* dict assignment: replace the option in place, or append it
SetOpt(opts, k, v) ==
  IF HasOpt(opts, k)
    THEN [i \in 1..Len(opts) |-> IF opts[i].k = k THEN [k |-> k, v |-> v] ELSE opts[i]]
    ELSE Append(opts, [k |-> k, v |-> v])

HasSect(cfg, n) == \E i \in 1..Len(cfg.sects) : cfg.sects[i].name = n

SectOpts(cfg, n) ==
  IF n = DefaultSection THEN cfg.defaults
  ELSE cfg.sects[CHOOSE i \in 1..Len(cfg.sects) : cfg.sects[i].name = n].opts

PutOpt(cfg, n, k, v) ==
  IF n = DefaultSection
    THEN [cfg EXCEPT !.defaults = SetOpt(@, k, v)]
    ELSE [cfg EXCEPT !.sects =
            [i \in 1..Len(@) |->
               IF @[i].name = n THEN [@[i] EXCEPT !.opts = SetOpt(@, k, v)] ELSE @[i]]]

\* RawConfigParser.add_section
add_section(cfg, n) ==
  IF n = DefaultSection THEN [err |-> "ValueError", cfg |-> cfg]
  ELSE IF HasSect(cfg, n) THEN [err |-> "DuplicateSectionError", cfg |-> cfg]
  ELSE [err |-> "none", cfg |-> [cfg EXCEPT !.sects = Append(@, [name |-> n, opts |-> <<>>])]]

\* ConfigParser.set: before_set validates a non-empty value, then the
\* section must exist
set(cfg, n, k, v) ==
  IF v # <<>> /\ ~ValidValue(v) THEN [err |-> "ValueError", cfg |-> cfg]
  ELSE IF n # DefaultSection /\ ~HasSect(cfg, n) THEN [err |-> "NoSectionError", cfg |-> cfg]
  ELSE [err |-> "none", cfg |-> PutOpt(cfg, n, k, v)]

\* ConfigParser.get: the section's value, else the default's, interpolated
get(cfg, n, k) ==
  IF n # DefaultSection /\ ~HasSect(cfg, n) THEN [err |-> "NoSectionError", v |-> <<>>]
  ELSE LET raw == IF HasOpt(SectOpts(cfg, n), k) THEN Some(OptVal(SectOpts(cfg, n), k))
                  ELSE IF HasOpt(cfg.defaults, k) THEN Some(OptVal(cfg.defaults, k))
                  ELSE None
       IN  IF raw = None THEN [err |-> "NoOptionError", v |-> <<>>]
           ELSE IF ~Interpolate(raw[1]).ok
             THEN [err |-> "InterpolationSyntaxError", v |-> <<>>]
           ELSE [err |-> "none", v |-> Interpolate(raw[1]).v]

\* One line of RawConfigParser._read (strict).  st: the parser so far, the
\* current section ("" before any header), the sections and options added by
\* this read, the error raised at once, and whether a ParsingError is pending.
ReadLine(st, ln) ==
  IF st.err # "none" \/ ln.t = "blank" THEN st
  ELSE IF ln.t = "hdr" THEN
    IF HasSect(st.cfg, ln.k)
      THEN IF ln.k \in st.addedS
             THEN [st EXCEPT !.err = "DuplicateSectionError"]
             ELSE [st EXCEPT !.cur = ln.k, !.addedS = @ \cup {ln.k}]
    ELSE IF ln.k = DefaultSection
      THEN [st EXCEPT !.cur = ln.k]
    ELSE [st EXCEPT !.cur = ln.k, !.addedS = @ \cup {ln.k},
                    !.cfg = add_section(st.cfg, ln.k).cfg]
  ELSE IF st.cur = "" THEN [st EXCEPT !.err = "MissingSectionHeaderError"]
  ELSE IF ln.t = "opt" THEN
    IF <<st.cur, ln.k>> \in st.addedO
      THEN [st EXCEPT !.err = "DuplicateOptionError"]
      ELSE [st EXCEPT !.addedO = @ \cup {<<st.cur, ln.k>>},
                      !.cfg = PutOpt(st.cfg, st.cur, ln.k, Strip(ln.v))]
  ELSE [st EXCEPT !.perr = TRUE]

RECURSIVE ReadLines(_, _)
ReadLines(st, ls) ==
  IF ls = <<>> THEN st ELSE ReadLines(ReadLine(st, Head(ls)), Tail(ls))

\* RawConfigParser.readfp: parse the lines into cfg; a pending ParsingError
\* is raised at the end
readfp(cfg, ls) ==
  LET st == ReadLines([cfg |-> cfg, cur |-> "", addedS |-> {}, addedO |-> {},
                       err |-> "none", perr |-> FALSE], ls)
  IN  [err |-> IF st.err # "none" THEN st.err
               ELSE IF st.perr THEN "ParsingError" ELSE "none",
       cfg |-> st.cfg]

OptLines(opts) == [i \in 1..Len(opts) |-> Opt(opts[i].k, opts[i].v)]

RECURSIVE SectLines(_)
SectLines(ss) ==
  IF ss = <<>> THEN <<>>
  ELSE <<Hdr(Head(ss).name)>> \o OptLines(Head(ss).opts) \o <<Blank>> \o SectLines(Tail(ss))

\* RawConfigParser.write: the defaults when there are any, then every
\* section: header, "key = value" lines, a blank line
write(cfg) ==
  (IF cfg.defaults # <<>>
     THEN <<Hdr(DefaultSection)>> \o OptLines(cfg.defaults) \o <<Blank>>
     ELSE <<>>) \o SectLines(cfg.sects)

----------------------------------------------------------------------------
(* MisfitCli: the config handling of cli.py *)

\* a parser that starts from what the config file holds
NewConfigParser_Loaded(f) ==
  IF f.exists /\ readfp(EmptyConfig, f.lines).err = "none"
    THEN readfp(EmptyConfig, f.lines).cfg
    ELSE EmptyConfig

\* self.config = configparser.ConfigParser() (line 48): the parser of a new
\* process is empty, whatever the config file f on disk holds
NewConfigParser(f) == EmptyConfig

\* read_config (lines 69-75).  open() raises IOError when the file does not
\* exist or cannot be read; readfp parses it; the three get calls run in
\* order and each assigns its attribute before the next one runs.
read_config(cfg, f, readable) ==
  LET fail(e, c, i, s, a, o) ==
        [err |-> e, cfg |-> c, client_id |-> i, client_secret |-> s,
         access_token |-> a, io |-> o]
  IN
  IF ~f.exists \/ ~readable
    THEN fail("IOError", cfg, None, None, None, "open_failed")
  ELSE LET r  == readfp(cfg, f.lines)
           g1 == get(r.cfg, Section, Keys[1])
           g2 == get(r.cfg, Section, Keys[2])
           g3 == get(r.cfg, Section, Keys[3])
       IN  IF r.err # "none" THEN fail(r.err, r.cfg, None, None, None, "ok")
           ELSE IF g1.err # "none" THEN fail(g1.err, r.cfg, None, None, None, "ok")
           ELSE IF g2.err # "none" THEN fail(g2.err, r.cfg, Some(g1.v), None, None, "ok")
           ELSE IF g3.err # "none"
             THEN fail(g3.err, r.cfg, Some(g1.v), Some(g2.v), None, "ok")
           ELSE fail("none", r.cfg, Some(g1.v), Some(g2.v), Some(g3.v), "ok")

\* the except clause of __init__ (lines 61-62): IOError,
\* configparser.NoOptionError, configparser.NoSectionError
Caught == {"IOError", "NoOptionError", "NoSectionError"}

\* a file opened for appending: what it holds is kept
Truncate_Append(f) == FileOf(f.lines)

\* open(self.config_file, 'w') (line 83): the file is created or truncated
Truncate(f) == FileOf(<<>>)

\* write_config (lines 77-85).  add_section and the three set calls act on
\* the in-memory parser; open(..., 'w') may fail (ioOut = "open_failed",
\* the file is untouched) and otherwise truncates the file; writing may
\* fail after k of the lines reached the disk (ioOut = "write_failed");
\* the confirmation is printed only when all of it succeeded.
write_config(cfg, f, cid, cs, tok, ioOut, k) ==
  LET res(e, c, nf, o, p) ==
        [err |-> e, cfg |-> c, file |-> nf, io |-> o, printed |-> p]
      a  == add_section(cfg, Section)
      s1 == set(a.cfg, Section, Keys[1], cid)
      s2 == set(s1.cfg, Section, Keys[2], cs)
      s3 == set(s2.cfg, Section, Keys[3], tok)
      ls == write(s3.cfg)
      opened == Truncate(f)
      n  == IF k < Len(ls) THEN k ELSE Len(ls)
  IN
  IF a.err # "none" THEN res(a.err, a.cfg, f, "none", FALSE)
  ELSE IF s1.err # "none" THEN res(s1.err, s1.cfg, f, "none", FALSE)
  ELSE IF s2.err # "none" THEN res(s2.err, s2.cfg, f, "none", FALSE)
  ELSE IF s3.err # "none" THEN res(s3.err, s3.cfg, f, "none", FALSE)
  ELSE IF ioOut = "open_failed" THEN res("IOError", s3.cfg, f, ioOut, FALSE)
  ELSE IF ioOut = "write_failed"
    THEN res("IOError", s3.cfg, FileOf(opened.lines \o SubSeq(ls, 1, n)), ioOut, FALSE)
  ELSE res("none", s3.cfg, FileOf(opened.lines \o ls), "ok", TRUE)

\* if auth.token: (line 128)
HasToken(tok) == tok # None

IoOutcomes == {"ok", "open_failed", "write_failed"}

\* the lines write_config puts into a file for the credentials (cid, cs, tok)
CredentialLines(cid, cs, tok) ==
  <<Hdr(Section), Opt(Keys[1], cid), Opt(Keys[2], cs), Opt(Keys[3], tok), Blank>>

----------------------------------------------------------------------------
(* The state machine *)

\* the attributes of a process that has not started (lines 47-51)
Fresh ==
  /\ cmd = "none"
  /\ client_id = None
  /\ client_secret = None
  /\ access_token = None
  /\ config = EmptyConfig
  /\ listener = "Idle"
  /\ timer = 0
  /\ captured = "none"
  /\ result = "none"
  /\ token = None
  /\ out = <<>>
  /\ fault = "none"
  /\ exit = "running"
  /\ writeCalls = 0
  /\ io = "none"
  /\ resourceCalled = FALSE

Init ==
  /\ file \in InitFiles
  /\ file0 = file
  /\ pc = "idle"
  /\ Fresh

flowVars == <<listener, timer, captured, result, token>>

\* misfit --version: __init__ runs neither branch (line 57)
Version ==
  /\ pc = "idle"
  /\ pc' = "done"
  /\ cmd' = "version"
  /\ config' = NewConfigParser(file)
  /\ exit' = "zero"
  /\ UNCHANGED <<file, file0, client_id, client_secret, access_token, flowVars,
                 out, fault, writeCalls, io, resourceCalled>>

\* A resource command (lines 47-51, 57-67, 134-138): read_config, then
\* either the instruction to authorize (the caught exceptions), or
\* get_resource, or an exception that leaves __init__ and main.
Resource(c, readable) ==
  /\ pc = "idle"
  /\ LET r == read_config(NewConfigParser(file), file, readable)
     IN  /\ config' = r.cfg
         /\ client_id' = r.client_id
         /\ client_secret' = r.client_secret
         /\ access_token' = r.access_token
         /\ io' = r.io
         /\ resourceCalled' = (r.err = "none")
         /\ out' = IF r.err = "none" THEN <<"result">>
                   ELSE IF r.err \in Caught THEN <<"missing_config">>
                   ELSE <<>>
         /\ fault' = IF r.err = "none" \/ r.err \in Caught THEN "none" ELSE r.err
         /\ exit' = IF r.err = "none" \/ r.err \in Caught THEN "zero" ELSE "nonzero"
  /\ pc' = "done"
  /\ cmd' = c
  /\ UNCHANGED <<file, file0, flowVars, writeCalls>>

\* misfit authorize (lines 47-56, 124): the credentials come from the flags
AuthorizeStart(cid, cs) ==
  /\ pc = "idle"
  /\ pc' = "browser"
  /\ cmd' = "authorize"
  /\ config' = NewConfigParser(file)
  /\ client_id' = Some(cid)
  /\ client_secret' = Some(cs)
  /\ UNCHANGED <<file, file0, access_token, flowVars, out, fault, exit,
                 writeCalls, io, resourceCalled>>

----------------------------------------------------------------------------
(* auth.browser_authorize() (line 125): the authorization flow and its     *)
(* callback listener, from sections 4.2 and 4.3 of the specification.      *)

\* a listener that is started without a timeout
TimerExpired_Never(t) == FALSE

\* the listener has waited for its whole timeout
TimerExpired(t) == t >= Timeout

\* steps 1-3: the browser is launched (a failure to launch does not change
\* the flow) and the listener starts
LaunchBrowser ==
  /\ pc = "browser"
  /\ pc' = "await"
  /\ listener' = "Listening"
  /\ timer' = 0
  /\ UNCHANGED <<file, file0, cmd, client_id, client_secret, access_token, config,
                 captured, result, token, out, fault, exit, writeCalls, io,
                 resourceCalled>>

\* time passes while the listener waits
Tick ==
  /\ listener = "Listening"
  /\ timer < Timeout
  /\ timer' = timer + 1
  /\ UNCHANGED <<file, file0, pc, cmd, client_id, client_secret, access_token,
                 config, listener, captured, result, token, out, fault, exit,
                 writeCalls, io, resourceCalled>>

\* no matching request arrived within the timeout; the listener's timer stops
\* whenever the listener stops listening
TimeoutFire ==
  /\ listener = "Listening"
  /\ TimerExpired(timer)
  /\ listener' = "TimedOut"
  /\ timer' = 0
  /\ UNCHANGED <<file, file0, pc, cmd, client_id, client_secret, access_token,
                 config, captured, result, token, out, fault, exit,
                 writeCalls, io, resourceCalled>>

\* the redirect request arrives, with a code or with an error
Callback(what) ==
  /\ listener = "Listening"
  /\ listener' = "Captured"
  /\ captured' = what
  /\ timer' = 0
  /\ UNCHANGED <<file, file0, pc, cmd, client_id, client_secret, access_token,
                 config, result, token, out, fault, exit, writeCalls, io,
                 resourceCalled>>

\* step 4: the flow takes the listener's outcome and closes the listener
Await ==
  /\ pc = "await"
  /\ listener \in {"Captured", "TimedOut"}
  /\ listener' = "Closed"
  /\ pc' = IF listener = "Captured" /\ captured = "code" THEN "exchange" ELSE "returned"
  /\ result' = IF listener = "TimedOut" THEN "Timeout"
               ELSE IF captured = "error" THEN "Denied"
               ELSE result
  /\ UNCHANGED <<file, file0, cmd, client_id, client_secret, access_token, config,
                 timer, captured, token, out, fault, exit, writeCalls, io,
                 resourceCalled>>

\* step 5: the token endpoint answers with a token
ExchangeSuccess(tok) ==
  /\ pc = "exchange"
  /\ pc' = "returned"
  /\ result' = "Success"
  /\ token' = Some(tok)
  /\ UNCHANGED <<file, file0, cmd, client_id, client_secret, access_token, config,
                 listener, timer, captured, out, fault, exit, writeCalls, io,
                 resourceCalled>>

\* step 5: a non-success status (Denied) or a transport failure
ExchangeFailure(kind) ==
  /\ pc = "exchange"
  /\ pc' = "returned"
  /\ result' = kind
  /\ UNCHANGED <<file, file0, cmd, client_id, client_secret, access_token, config,
                 listener, timer, captured, token, out, fault, exit, writeCalls,
                 io, resourceCalled>>

\* the flow raises: the exception passes through authorize, __init__ and
\* main (lines 125, 56, 138); the listener is released on this path too
FlowRaise ==
  /\ pc \in {"browser", "await", "exchange"}
  /\ pc' = "done"
  /\ listener' = "Closed"
  /\ result' = "Raised"
  /\ fault' = "FlowError"
  /\ exit' = "nonzero"
  /\ timer' = 0
  /\ UNCHANGED <<file, file0, cmd, client_id, client_secret, access_token, config,
                 captured, token, out, writeCalls, io, resourceCalled>>

----------------------------------------------------------------------------
(* authorize after the flow returned (lines 127-131), and main's return *)

\* The rest of authorize when `writes` decides whether write_config is
\* called with the access token tok: write_config and its confirmation, an
\* exception of write_config leaving __init__ and main, or the error
\* message; in the last case authorize, __init__ and main return normally.
FinishAuthorize(writes, tok, ioOut, k) ==
  /\ pc = "returned"
  /\ pc' = "done"
  /\ IF writes
       THEN LET w == write_config(config, file, client_id[1], client_secret[1],
                                  tok, ioOut, k)
            IN  /\ writeCalls' = writeCalls + 1
                /\ config' = w.cfg
                /\ file' = w.file
                /\ io' = w.io
                /\ out' = IF w.printed THEN Append(out, "credentials_written") ELSE out
                /\ fault' = w.err
                /\ exit' = IF w.err = "none" THEN "zero" ELSE "nonzero"
       ELSE /\ out' = Append(out, "auth_error")
            /\ exit' = "zero"
            /\ UNCHANGED <<file, config, io, fault, writeCalls>>
  /\ UNCHANGED <<file0, cmd, client_id, client_secret, access_token, flowVars,
                 resourceCalled>>

\* a slip that stores the credentials whatever the flow returned
AuthorizeFinish_Unconditional(ioOut, k) ==
  FinishAuthorize(TRUE, IF token = None THEN <<>> ELSE token[1], ioOut, k)

\* lines 128-131: write_config(auth.token['access_token']) if auth.token,
\* else the error message
AuthorizeFinish(ioOut, k) ==
  FinishAuthorize(HasToken(token), IF HasToken(token) THEN token[1] ELSE <<>>, ioOut, k)

\* the process ends; the next invocation is a new process that finds the
\* config file as this one left it
Exit ==
  /\ pc = "done"
  /\ pc' = "idle"
  /\ file0' = file
  /\ cmd' = "none"
  /\ client_id' = None
  /\ client_secret' = None
  /\ access_token' = None
  /\ config' = EmptyConfig
  /\ listener' = "Idle"
  /\ timer' = 0
  /\ captured' = "none"
  /\ result' = "none"
  /\ token' = None
  /\ out' = <<>>
  /\ fault' = "none"
  /\ exit' = "running"
  /\ writeCalls' = 0
  /\ io' = "none"
  /\ resourceCalled' = FALSE
  /\ UNCHANGED file

\* the steps of one invocation
Step ==
  \/ Version
  \/ \E c \in ResourceCmds, readable \in BOOLEAN : Resource(c, readable)
  \/ \E cid \in ClientIds, cs \in ClientSecrets : AuthorizeStart(cid, cs)
  \/ LaunchBrowser
  \/ Tick
  \/ TimeoutFire
  \/ \E what \in {"code", "error"} : Callback(what)
  \/ Await
  \/ \E tok \in AccessTokens : ExchangeSuccess(tok)
  \/ \E kind \in {"Denied", "TransportError"} : ExchangeFailure(kind)
  \/ FlowRaise
  \/ \E ioOut \in IoOutcomes, k \in 0..4 : AuthorizeFinish(ioOut, k)

Next == Step \/ Exit

Spec == Init /\ [][Next]_vars

\* a step the invocation takes by itself once authorize has started: the
\* browser launch, the timer, the wait, the token request returning, and the
\* rest of authorize.  (The arrival of a redirect request is not among them.)
FlowStep ==
  \/ LaunchBrowser
  \/ Tick
  \/ TimeoutFire
  \/ Await
  \/ \E tok \in AccessTokens : ExchangeSuccess(tok)
  \/ \E ioOut \in IoOutcomes, k \in 0..4 : AuthorizeFinish(ioOut, k)

\* a running process is not halted: it takes its next step
Fairness == WF_vars(FlowStep)

\* one invocation, run to its end, from a config file that is absent, empty
\* or one line long
FairInit == Init /\ Len(file.lines) <= 1

FairSpec == FairInit /\ [][Step]_vars /\ Fairness

----------------------------------------------------------------------------
(* The claims *)

\* an invocation of command c has ended
Done(c) == pc = "done" /\ cmd = c

DoneResource == pc = "done" /\ cmd \in ResourceCmds

HasHeader(f, n) == \E i \in 1..Len(f.lines) : f.lines[i] = Hdr(n)

HasKey(f, k) == \E i \in 1..Len(f.lines) : f.lines[i].t = "opt" /\ f.lines[i].k = k

\* the file is missing, or has no [misfit] header, or lacks one of the keys
Incomplete(f) ==
  \/ ~f.exists
  \/ ~HasHeader(f, Section)
  \/ \E j \in 1..3 : ~HasKey(f, Keys[j])

\* read_config succeeds on the file
ValidConfig(f) == read_config(EmptyConfig, f, TRUE).err = "none"

\* the file holds, under a [misfit] header, the three credentials
Contains(f, cid, cs, tok) ==
  /\ f.exists
  /\ \E i \in 1..Len(f.lines) :
       /\ i + 3 <= Len(f.lines)
       /\ SubSeq(f.lines, i, i + 3)
            = <<Hdr(Section), Opt(Keys[1], cid), Opt(Keys[2], cs), Opt(Keys[3], tok)>>

\* C1: whenever an authorize invocation has no token from the flow (denied,
\* timed out, failed exchange, the flow raised), write_config has not been
\* called and the config file is as it was before the invocation.
C1_NoTokenNoWrite ==
  (cmd = "authorize" /\ token = None) => (writeCalls = 0 /\ file = file0)

C1_Witness ==
  /\ Done("authorize")
  /\ result = "TransportError"
  /\ captured = "code"
  /\ file0.exists
  /\ file0.lines # <<>>

\* C2: an authorize invocation whose flow returned a token ends with the
\* config file holding client_id, client_secret and access_token under
\* [misfit], written by exactly one write_config call.  Stated for the
\* invocations in which no file operation fails.
C2_TokenIsStored ==
  (Done("authorize") /\ token # None /\ io \notin {"open_failed", "write_failed"})
    => /\ Contains(file, client_id[1], client_secret[1], token[1])
       /\ writeCalls = 1

\* C3: a resource command on a missing or incomplete config prints the
\* instruction to authorize, does not call get_resource and returns
\* normally; get_resource runs only with all three credentials read.
C3_IncompleteConfigHandled ==
  DoneResource =>
    /\ Incomplete(file0) =>
         /\ out = <<"missing_config">>
         /\ ~resourceCalled
         /\ fault = "none"
         /\ exit = "zero"
    /\ resourceCalled =>
         /\ client_id # None
         /\ client_secret # None
         /\ access_token # None

\* C4: no exception escapes a resource command while it loads the config,
\* whatever the config file holds; a malformed file is handled like a
\* missing one.
C4_LoadNeverRaises ==
  DoneResource => (fault = "none" /\ (~resourceCalled => out = <<"missing_config">>))

\* C5: after a failed write of the config, a config file that was valid
\* before still holds its previous contents.
C5_WriteAllOrNothing ==
  (Done("authorize") /\ io \in {"open_failed", "write_failed"} /\ ValidConfig(file0))
    => file = file0

\* C6: an authorize invocation that obtains no token prints exactly one
\* failure message and exits with a non-zero status.  Stated for the flows
\* that return; a flow that raises ends the process with its exception.
C6_FailureExitsNonZero ==
  (Done("authorize") /\ token = None /\ result # "Raised")
    => (out = <<"auth_error">> /\ exit = "nonzero")

\* C7: a resource command that reads a config file that write_config wrote
\* for the credentials (cid, cs, tok) gets exactly these credentials.
C7_RoundTrip ==
  \A cid \in ClientIds, cs \in ClientSecrets, tok \in AccessTokens :
    (DoneResource /\ io = "ok" /\ file0 = FileOf(CredentialLines(cid, cs, tok)))
      => /\ client_id = Some(cid)
         /\ client_secret = Some(cs)
         /\ access_token = Some(tok)

\* C8: every authorize invocation eventually ends, also when no redirect
\* request arrives: the listener waits no longer than Timeout, and a flow
\* that timed out leaves the config file unchanged and unwritten.
C8_AuthorizeTerminates ==
  /\ (cmd = "authorize") ~> (pc = "done")
  /\ [](timer <= Timeout)
  /\ []((result = "Timeout") => (captured = "none" /\ writeCalls = 0 /\ file = file0))

C8_Witness ==
  /\ Done("authorize")
  /\ result = "Timeout"
  /\ captured = "none"
  /\ out = <<"auth_error">>

\* C9 as stated: an authorize run that got a token, against a config file
\* that already has the [misfit] section, ends in a duplicate-section fault.
C9_SecondAuthorizeConflicts ==
  (Done("authorize") /\ token # None /\ HasHeader(file0, Section))
    => fault = "DuplicateSectionError"

\* C9 amended: an authorize run that got a token, against a config file
\* that already has the [misfit] section, never ends in a duplicate-section
\* fault, and when write_config raises nothing the file holds exactly the
\* new credentials.
C9_SecondAuthorizeOverwrites ==
  (Done("authorize") /\ token # None /\ HasHeader(file0, Section))
    => /\ fault # "DuplicateSectionError"
       /\ fault = "none" =>
            file = FileOf(CredentialLines(client_id[1], client_secret[1], token[1]))

C9_Witness ==
  /\ Done("authorize")
  /\ token # None
  /\ ValidConfig(file0)
  /\ fault = "none"
  /\ file # file0

\* C10: after an authorize run that stored its credentials, the config file
\* is exactly one [misfit] section with the three keys; nothing of what the
\* file held before remains.
C10_FileIsExactlyTheCredentials ==
  (Done("authorize") /\ token # None /\ fault = "none")
    => /\ file = FileOf(CredentialLines(client_id[1], client_secret[1], token[1]))
       /\ Len(config.sects) = 1
       /\ config.defaults = <<>>

C10_Witness ==
  /\ Done("authorize")
  /\ token # None
  /\ fault = "none"
  /\ HasHeader(file0, DefaultSection)
  /\ HasKey(file0, Keys[1])

====
